---- MODULE Spec2Model ----
(***************************************************************************)
(* Model of the OpenCode sidecar supervisor, session client and event      *)
(* relay of src-tauri/src/opencode_integration.rs and                      *)
(* src-tauri/src/commands/opencode.rs.                                     *)
(*                                                                         *)
(* Spec       : two tasks calling start_server, stop_server and           *)
(*              get_server_info; every `.lock().await` and every           *)
(*              network/process await is a step.                           *)
(* SpecClient : one task starts and stops the sidecar while another calls  *)
(*              the session operations and get_server_info.                *)
(* SpecRelay  : process_event_stream fed with a byte stream in chunks.     *)
(* SpecPort   : port extraction and discovery over the sidecar's stdout.   *)
(* SpecConnect: one task calling every operation, connect_event_stream     *)
(*              included, beside the relay task it launches.               *)
(* SpecChat   : one task calling start_server, stop_server and             *)
(*              execute_opencode_chat.                                     *)
(* SpecLocks  : two tasks contending for the two locks, under fair         *)
(*              scheduling.                                                *)
(***************************************************************************)
EXTENDS Integers, Sequences, FiniteSets, TLC

\* ------------------------------------------------------------------ bounds
MaxSpawns == 2
MaxChunk == 2
MaxRelays == 2
MaxLineLen == 3

\* ------------------------------------------------------- program constants
MAX_ATTEMPTS == 30
ReadAttempts == 100
DefaultPort == 3001
U16Max == 65535

\* ------------------------------------------------------------------ basics
Tasks == {"t1", "t2"}

None == <<>>
Some(x) == <<x>>
IsSome(o) == o # <<>>
Unwrap(o) == o[1]

NoTask == "none"

\* Result<T>: ok with a value (kept as an Option so that values of different
\* types are never compared), or an error message.
Ok(v) == [ok |-> TRUE, val |-> <<v>>, err |-> ""]
OkUnit == [ok |-> TRUE, val |-> <<>>, err |-> ""]
Err(m) == [ok |-> FALSE, val |-> <<>>, err |-> m]

ErrTimeout == "OpenCode server failed to start within timeout"
ErrNotRunning == "OpenCode server not running"
ErrEmitStarted == "Failed to emit server started event"

StatusStarting == "Starting"
StatusRunning == "Running"
StatusStopped == "Stopped"
StatusError == "Error(Server failed to start within timeout)"

Hostname == "127.0.0.1"

\* format!("http://{}:{}", hostname, port)
BaseUrl(hostname, port) == <<"http://", hostname, ":", port>>

OpenCodeServerInfo(port, pid, status) ==
    [port |-> port, hostname |-> Hostname, pid |-> pid, status |-> status,
     base_url |-> BaseUrl(Hostname, port)]

\* --------------------------------------------------------- port extraction
Digits == <<"0", "1", "2", "3", "4", "5", "6", "7", "8", "9">>
IsDigit(c) == \E d \in 1..10 : Digits[d] = c
DigitVal(c) == (CHOOSE d \in 1..10 : Digits[d] = c) - 1

\* lit occurs in line at position i
LitAt(line, lit, i) ==
    /\ i + Len(lit) - 1 <= Len(line)
    /\ \A k \in 1..Len(lit) : line[i + k - 1] = lit[k]

\* end of the maximal run of digits starting at i (i - 1 when none)
RECURSIVE DigitsEnd(_, _)
DigitsEnd(line, i) ==
    IF i <= Len(line) /\ IsDigit(line[i]) THEN DigitsEnd(line, i + 1) ELSE i - 1

\* str::parse::<u16>: None on overflow
RECURSIVE ParseFrom(_, _, _, _)
ParseFrom(line, i, j, acc) ==
    IF i > j THEN Some(acc)
    ELSE LET v == acc * 10 + DigitVal(line[i])
         IN IF v > U16Max THEN None ELSE ParseFrom(line, i + 1, j, v)
ParseU16(line, i, j) == ParseFrom(line, i, j, 0)

\* regex  lit(\d+) : leftmost match, capture group parsed as u16
CaptureAfterLit(line, lit) ==
    LET hits == {i \in 1..Len(line) :
                    /\ LitAt(line, lit, i)
                    /\ i + Len(lit) <= Len(line)
                    /\ IsDigit(line[i + Len(lit)])}
    IN IF hits = {} THEN None
       ELSE LET i == CHOOSE h \in hits : \A g \in hits : h <= g
                s == i + Len(lit)
            IN ParseU16(line, s, DigitsEnd(line, s))

\* regex  lit.*?(\d+) : leftmost lit, then the first digit run after it that
\* is not separated from it by a line feed
CaptureLazyAfterLit(line, lit) ==
    LET hits == {i \in 1..Len(line) :
                    /\ LitAt(line, lit, i)
                    /\ \E j \in (i + Len(lit))..Len(line) :
                          /\ IsDigit(line[j])
                          /\ \A k \in (i + Len(lit))..(j - 1) : line[k] # "\n"}
    IN IF hits = {} THEN None
       ELSE LET i == CHOOSE h \in hits : \A g \in hits : h <= g
                ds == {j \in (i + Len(lit))..Len(line) : IsDigit(line[j])}
                s == CHOOSE j \in ds : \A g \in ds : j <= g
            IN ParseU16(line, s, DigitsEnd(line, s))

LitColon == <<":">>
LitPort == <<"p", "o", "r", "t", " ">>
LitListening == <<"l", "i", "s", "t", "e", "n", "i", "n", "g">>
LitLocalhost == <<"l", "o", "c", "a", "l", "h", "o", "s", "t", ":">>
LitLoopback == <<"1", "2", "7", ".", "0", ".", "0", ".", "1", ":">>

\* the five patterns, tried in order; the first whose capture parses wins
PatternCapture(line, n) ==
    CASE n = 1 -> CaptureAfterLit(line, LitColon)
      [] n = 2 -> CaptureAfterLit(line, LitPort)
      [] n = 3 -> CaptureLazyAfterLit(line, LitListening)
      [] n = 4 -> CaptureAfterLit(line, LitLocalhost)
      [] n = 5 -> CaptureAfterLit(line, LitLoopback)

NumPatterns == 5

RECURSIVE ExtractFrom(_, _)
ExtractFrom(line, n) ==
    IF n > NumPatterns THEN None
    ELSE LET c == PatternCapture(line, n)
         IN IF IsSome(c) THEN c ELSE ExtractFrom(line, n + 1)

extract_port_from_line(line) == ExtractFrom(line, 1)

\* one stdout read of the discovery loop: a line, a read timeout, end of file
\* or a read error
ReadLine(l) == [kind |-> "line", line |-> l]
ReadTimeout == [kind |-> "timeout", line |-> <<>>]
ReadEof == [kind |-> "eof", line |-> <<>>]
ReadError == [kind |-> "error", line |-> <<>>]

\* the `for _ in 0..100` loop of start_server over the outcomes of read_line;
\* reads beyond the script time out
RECURSIVE DiscoverFrom(_, _)
DiscoverFrom(script, i) ==
    IF i > ReadAttempts \/ i > Len(script) THEN 0
    ELSE LET r == script[i]
         IN CASE r.kind = "eof" -> 0
              [] r.kind = "error" -> 0
              [] r.kind = "timeout" -> DiscoverFrom(script, i + 1)
              [] r.kind = "line" ->
                    LET p == extract_port_from_line(r.line)
                    IN IF IsSome(p) THEN Unwrap(p)
                       ELSE DiscoverFrom(script, i + 1)

\* port read from stdout, or the development default when it is still 0
DiscoverPort(script) ==
    LET port == DiscoverFrom(script, 1)
    IN IF port = 0 THEN DefaultPort ELSE port

LineListening41234 ==
    <<"S", "e", "r", "v", "e", "r", " ", "l", "i", "s", "t", "e", "n", "i", "n",
      "g", " ", "o", "n", " ", "1", "2", "7", ".", "0", ".", "0", ".", "1", ":",
      "4", "1", "2", "3", "4", "\n">>
LineBanner == <<"o", "p", "e", "n", "c", "o", "d", "e", "\n">>

\* what the sidecar may print before the supervisor stops reading
StdoutScripts ==
    { <<ReadLine(LineBanner), ReadTimeout, ReadLine(LineListening41234)>>,
      <<ReadLine(LineBanner), ReadEof>>,
      <<ReadError>>,
      <<>> }

\* ------------------------------------------------- port discovery: state
VARIABLES
    portScript,   \* what the sidecar prints: the outcomes of the reads
    portOut       \* None, or what extraction and discovery made of it

portVars == <<portScript, portOut>>

PortAlphabet == {":", "7", "0", "x"}

\* all lines of up to n characters of the alphabet
RECURSIVE LinesUpTo(_)
LinesUpTo(n) ==
    IF n = 0 THEN {<<>>}
    ELSE LET shorter == LinesUpTo(n - 1)
         IN  shorter \cup {Append(l, c) : l \in shorter, c \in PortAlphabet}

\* every short line, the lines of the sidecar, and lines that name a port
\* or an address in other ways
PortLines ==
    LinesUpTo(MaxLineLen)
        \cup {LineListening41234, LineBanner,
              SubSeq(LineListening41234, 1, Len(LineListening41234) - 1),
              <<"l", "i", "s", "t", "e", "n", "i", "n", "g", " ", "o", "n",
                " ", "1", "2", "7", ".", "0", ".", "0", ".", "1", "\n">>,
              <<"p", "o", "r", "t", " ", "4", "0", "9", "6", "\n">>,
              <<":", "7", "0", "0", "0", "0", "\n">>,
              <<":", "7", "0", "0", "0", "0", " ", "p", "o", "r", "t", " ",
                "8", "0", "\n">>}

PortScripts == StdoutScripts \cup {<<ReadLine(l)>> : l \in PortLines}

PortIdle == portScript = <<>> /\ portOut = None

PortInit == portScript \in PortScripts /\ portOut = None

\* extract_port_from_line on the first line read, and the port start_server
\* puts into the ServerInfo after its discovery loop
PortRun ==
    /\ portOut = None
    /\ portOut' = Some([extracted |->
                           IF portScript # <<>> /\ portScript[1].kind = "line"
                           THEN extract_port_from_line(portScript[1].line)
                           ELSE None,
                        info |-> OpenCodeServerInfo(DiscoverPort(portScript),
                                                    None, StatusStarting)])
    /\ UNCHANGED portScript

\* ------------------------------------------------------------ shared state
VARIABLES
    server_process,  \* OpenCodeState.server_process: Option<Child> (the pid)
    server_info,     \* OpenCodeState.server_info: Option<OpenCodeServerInfo>
    procLock,        \* holder of the server_process mutex
    infoLock,        \* holder of the server_info mutex
    alive,           \* sidecar processes spawned by start_server still running
    spawned,         \* number of processes spawned so far (the last pid)
    pc,              \* per task: the await point it is at
    op,              \* per task: the operation it is running
    loc,             \* per task: the locals of the running operation
    lastRet,         \* the most recent return of an operation
    lastSec,         \* Some(pid, info) when the most recent completed
                     \* start_server / stop_server was a start_server that
                     \* spawned pid and returned info, else None
    relays           \* number of relay tasks launched with tokio::spawn

supVars == <<server_process, server_info, procLock, infoLock, alive, spawned,
             pc, op, loc, lastRet, lastSec>>

SessionOps == {"create_session", "list_sessions", "get_session_messages",
               "send_chat_message", "abort_opencode_session"}

NoLoc == [child |-> None, info |-> None, url |-> None, attempts |-> 0,
          reqs |-> 0, overlap |-> FALSE, firstOk |-> 0,
          spawnedPid |-> None, preInfo |-> None]

NoSec == None

NoRet == [task |-> NoTask, op |-> "none", at |-> "idle", res |-> OkUnit,
          hadChild |-> FALSE, overlap |-> FALSE, firstOk |-> 0,
          child |-> None, url |-> None, spawnedPid |-> None, attempts |-> 0, reqs |-> 0,
          preInfo |-> None, postInfo |-> None, postProc |-> None,
          notified |-> <<>>, prevSec |-> NoSec, prevAlive |-> FALSE]

SupInit ==
    /\ server_process = None
    /\ server_info = None
    /\ procLock = NoTask
    /\ infoLock = NoTask
    /\ alive = {}
    /\ spawned = 0
    /\ pc = [t \in Tasks |-> "idle"]
    /\ op = [t \in Tasks |-> "none"]
    /\ loc = [t \in Tasks |-> NoLoc]
    /\ lastRet = NoRet
    /\ lastSec = NoSec

\* the operation of task t returns res; postProc and postInfo are the shared
\* state it leaves behind, notes the payloads it emitted on
\* "opencode-server-started", attempts the probes its readiness wait made and
\* firstOk the probe behaviour that wait met
ReturnProbed(t, res, postProc, postInfo, notes, attempts, firstOk) ==
    /\ pc' = [pc EXCEPT ![t] = "idle"]
    /\ op' = [op EXCEPT ![t] = "none"]
    /\ loc' = [loc EXCEPT ![t] = NoLoc]
    /\ lastRet' = [task |-> t, op |-> op[t], at |-> pc[t], res |-> res,
                   hadChild |-> IsSome(loc[t].child),
                   overlap |-> loc[t].overlap,
                   firstOk |-> firstOk,
                   child |-> loc[t].child, url |-> loc[t].url,
                   spawnedPid |-> loc[t].spawnedPid,
                   attempts |-> attempts, reqs |-> loc[t].reqs,
                   preInfo |-> loc[t].preInfo,
                   postInfo |-> postInfo, postProc |-> postProc,
                   notified |-> notes,
                   prevSec |-> lastSec,
                   prevAlive |-> /\ IsSome(lastSec)
                                 /\ Unwrap(lastSec).pid \in alive]
    /\ lastSec' = CASE op[t] = "start_server" /\ res.ok
                           /\ IsSome(loc[t].spawnedPid) ->
                           Some([pid |-> Unwrap(loc[t].spawnedPid),
                                 info |-> Unwrap(res.val)])
                    [] op[t] \in {"start_server", "stop_server"} -> None
                    [] OTHER -> lastSec

\* a return outside the readiness wait
Return(t, res, postProc, postInfo, notes, attempts) ==
    ReturnProbed(t, res, postProc, postInfo, notes, attempts, loc[t].firstOk)

\* lastRet holds a return only in the state that follows it
ClearRet == lastRet' = NoRet

Goto(t, label) == pc' = [pc EXCEPT ![t] = label]

\* -------------------------------------------------------------- the caller
StartsPending ==
    Cardinality({t \in Tasks : op[t] = "start_server" /\ loc[t].spawnedPid = None})

ConnectsPending ==
    Cardinality({t \in Tasks : op[t] = "connect_event_stream"})

\* a call of start_server made while another task is inside start_server
StartOverlaps(t, o) ==
    /\ o = "start_server"
    /\ \E u \in Tasks \ {t} : op[u] = "start_server"

\* task t calls operation o
Call(t, o) ==
    /\ pc[t] = "idle"
    /\ o \in {"start_server", "stop_server", "get_server_info",
              "connect_event_stream"} \cup SessionOps
    /\ o = "start_server" => spawned + StartsPending < MaxSpawns
    /\ o = "connect_event_stream" => relays + ConnectsPending < MaxRelays
    /\ op' = [op EXCEPT ![t] = o]
    /\ loc' = [loc EXCEPT ![t] = [NoLoc EXCEPT !.overlap = StartOverlaps(t, o)]]
    /\ Goto(t, CASE o = "start_server" -> "start_lock"
                 [] o = "stop_server" -> "stop_lock"
                 [] o = "get_server_info" -> "get_lock"
                 [] o = "connect_event_stream" -> "conn_lock"
                 [] OTHER -> "sess_lock")
    /\ ClearRet
    /\ UNCHANGED <<server_process, server_info, procLock, infoLock, alive,
                   spawned, lastSec>>

\* the sidecar exits on its own
ProcExit(p) ==
    /\ p \in alive
    /\ alive' = alive \ {p}
    /\ ClearRet
    /\ UNCHANGED <<server_process, server_info, procLock, infoLock, spawned, pc, op, loc, lastSec>>

\* ------------------------------------------------------------ start_server
ResolveOutcomes == {"spawned", "Could not find bun or node binary",
                    "OpenCode server not found",
                    "Failed to spawn OpenCode server"}

\* mutant: try_wait reports every handle as exited
HasExitedAlways(child) == TRUE

\* child.try_wait() reports an exit status
HasExited(child) == Unwrap(child) \notin alive

\* mutant: the server_process guard is dropped at the end of the liveness
\* check instead of being held until start_server returns
StartAcquireScopedGuard(t) ==
    /\ pc[t] = "start_lock"
    /\ procLock = NoTask
    /\ server_process' = None
    /\ IF IsSome(server_process) /\ ~HasExited(server_process)
       THEN /\ loc' = [loc EXCEPT ![t].child = server_process,
                                  ![t].preInfo = server_info]
            /\ Goto(t, "start_cached_lock")
       ELSE /\ loc' = [loc EXCEPT ![t].preInfo = server_info]
            /\ Goto(t, "start_resolve")
    /\ ClearRet
    /\ UNCHANGED <<server_info, procLock, infoLock, alive, spawned, op, lastSec>>

\* self.server_process.lock().await, then server_process.take() and the
\* liveness check of the handle taken
StartAcquire(t) ==
    /\ pc[t] = "start_lock"
    /\ procLock = NoTask
    /\ procLock' = t
    /\ server_process' = None
    /\ IF IsSome(server_process) /\ ~HasExited(server_process)
       THEN /\ loc' = [loc EXCEPT ![t].child = server_process,
                                  ![t].preInfo = server_info]
            /\ Goto(t, "start_cached_lock")
       ELSE \* no handle, or an exited one, dropped at the end of the block
            /\ loc' = [loc EXCEPT ![t].preInfo = server_info]
            /\ Goto(t, "start_resolve")
    /\ ClearRet
    /\ UNCHANGED <<server_info, infoLock, alive, spawned, op, lastSec>>

\* the handle is alive: self.server_info.lock().await
StartCachedAcquire(t) ==
    /\ pc[t] = "start_cached_lock"
    /\ infoLock = NoTask
    /\ infoLock' = t
    /\ Goto(t, "start_cached")
    /\ ClearRet
    /\ UNCHANGED <<server_process, server_info, procLock, alive, spawned, op, loc, lastSec>>

\* mutant: the server_info guard outlives the liveness check when no info is
\* stored
StartCachedKeepsGuard(t) ==
    /\ pc[t] = "start_cached"
    /\ infoLock = t
    /\ IF IsSome(server_info)
       THEN /\ procLock' = NoTask
            /\ infoLock' = NoTask
            /\ Return(t, Ok(Unwrap(server_info)), server_process, server_info, <<>>,
                 loc[t].attempts)
       ELSE /\ Goto(t, "start_resolve")
            /\ loc' = [loc EXCEPT ![t].child = None]
            /\ ClearRet /\ UNCHANGED <<procLock, infoLock, op, lastSec>>
    /\ UNCHANGED <<server_process, server_info, alive, spawned>>

\* return the stored info when there is one (both guards and the taken
\* handle are dropped), else go on to spawn
StartCached(t) ==
    /\ pc[t] = "start_cached"
    /\ infoLock = t
    /\ infoLock' = NoTask
    /\ IF IsSome(server_info)
       THEN /\ procLock' = NoTask
            /\ Return(t, Ok(Unwrap(server_info)), server_process, server_info, <<>>,
                 loc[t].attempts)
       ELSE /\ Goto(t, "start_resolve")
            /\ loc' = [loc EXCEPT ![t].child = None]
            /\ ClearRet /\ UNCHANGED <<procLock, op, lastSec>>
    /\ UNCHANGED <<server_process, server_info, alive, spawned>>

\* locate the runtime and the entry script, then cmd.spawn() and
\* *server_process = Some(child)
StartResolve(t, outcome) ==
    /\ pc[t] = "start_resolve"
    /\ procLock = t
    /\ outcome \in ResolveOutcomes
    /\ IF outcome = "spawned"
       THEN /\ spawned' = spawned + 1
            /\ alive' = alive \cup {spawned + 1}
            /\ server_process' = Some(spawned + 1)
            /\ loc' = [loc EXCEPT ![t].spawnedPid = Some(spawned + 1)]
            /\ Goto(t, "start_discover")
            /\ ClearRet /\ UNCHANGED <<procLock, op, lastSec>>
       ELSE /\ procLock' = NoTask
            /\ Return(t, Err(outcome), server_process, server_info, <<>>,
                 loc[t].attempts)
            /\ UNCHANGED <<server_process, alive, spawned>>
    /\ UNCHANGED <<server_info, infoLock>>

\* read the port from stdout and build the Starting info
StartDiscover(t, script) ==
    /\ pc[t] = "start_discover"
    /\ script \in StdoutScripts
    /\ loc' = [loc EXCEPT ![t].info =
                  Some(OpenCodeServerInfo(DiscoverPort(script),
                                          loc[t].spawnedPid, StatusStarting))]
    /\ Goto(t, "start_poll")
    /\ ClearRet
    /\ UNCHANGED <<server_process, server_info, procLock, infoLock, alive,
                   spawned, op, lastSec>>

\* test_server_connection at the given attempt: the probes of one call are
\* described by firstOk, the attempt of the first probe answered with a
\* success status (0: none of them is)
ProbeOk(firstOk, attempt) == firstOk # 0 /\ attempt >= firstOk

\* the probe behaviours tried: never ready, ready at once, ready at the
\* second probe, ready at the last probe
FirstOkChoices == {0, 1, 2, MAX_ATTEMPTS}

\* mutant: the info is marked Running without looking at the probe's answer
WaitLoopTrusting(info, attempts, firstOk) ==
    [attempts |-> attempts + 1,
     res |-> Ok([info EXCEPT !.status = StatusRunning])]

\* wait_for_server_ready: `while attempts < MAX_ATTEMPTS`, one probe per
\* iteration; Running on the first success, else the Error status is set on
\* the local info, which is dropped, and the timeout error is returned
RECURSIVE WaitLoop(_, _, _)
WaitLoop(info, attempts, firstOk) ==
    IF attempts < MAX_ATTEMPTS
    THEN IF ProbeOk(firstOk, attempts + 1)
         THEN [attempts |-> attempts + 1,
               res |-> Ok([info EXCEPT !.status = StatusRunning])]
         ELSE WaitLoop(info, attempts + 1, firstOk)
    ELSE [attempts |-> attempts, res |-> Err(ErrTimeout)]

wait_for_server_ready(info, firstOk) == WaitLoop(info, 0, firstOk)

\* the readiness wait of start_server ends: `?` returns the timeout error and
\* releases the process lock, or the ready info goes on to be stored
StartWait(t, firstOk) ==
    /\ pc[t] = "start_poll"
    /\ firstOk \in FirstOkChoices
    /\ LET w == wait_for_server_ready(Unwrap(loc[t].info), firstOk)
       IN IF w.res.ok
          THEN /\ loc' = [loc EXCEPT ![t].attempts = w.attempts,
                                     ![t].firstOk = firstOk,
                                     ![t].info = w.res.val]
               /\ Goto(t, "start_store_lock")
               /\ ClearRet /\ UNCHANGED <<procLock, op, lastSec>>
          ELSE /\ procLock' = NoTask
               /\ ReturnProbed(t, w.res, server_process, server_info, <<>>,
                               w.attempts, firstOk)
    /\ UNCHANGED <<server_process, server_info, infoLock, alive, spawned>>

\* self.server_info.lock().await after a successful probe
StartStoreAcquire(t) ==
    /\ pc[t] = "start_store_lock"
    /\ infoLock = NoTask
    /\ infoLock' = t
    /\ Goto(t, "start_store")
    /\ ClearRet
    /\ UNCHANGED <<server_process, server_info, procLock, alive, spawned, op, loc, lastSec>>

\* *info_guard = Some(ready_info), emit "opencode-server-started", return
StartStore(t, emitOk) ==
    /\ pc[t] = "start_store"
    /\ infoLock = t
    /\ server_info' = loc[t].info
    /\ infoLock' = NoTask
    /\ procLock' = NoTask
    /\ IF emitOk
       THEN Return(t, Ok(Unwrap(loc[t].info)), server_process, loc[t].info,
                   <<Unwrap(loc[t].info)>>, loc[t].attempts)
       ELSE Return(t, Err(ErrEmitStarted), server_process, loc[t].info, <<>>,
                   loc[t].attempts)
    /\ UNCHANGED <<server_process, alive, spawned>>

\* ------------------------------------------------------------- stop_server
\* self.server_process.lock().await, then server_process.take()
StopAcquire(t) ==
    /\ pc[t] = "stop_lock"
    /\ procLock = NoTask
    /\ procLock' = t
    /\ server_process' = None
    /\ loc' = [loc EXCEPT ![t].child = server_process,
                          ![t].preInfo = server_info]
    /\ Goto(t, IF IsSome(server_process) THEN "stop_kill" ELSE "stop_info_lock")
    /\ ClearRet
    /\ UNCHANGED <<server_info, infoLock, alive, spawned, op, lastSec>>

\* child.kill().await: the process is terminated, or the error is logged
StopKill(t, killed) ==
    /\ pc[t] = "stop_kill"
    /\ alive' = IF killed THEN alive \ {Unwrap(loc[t].child)} ELSE alive
    /\ Goto(t, "stop_wait")
    /\ ClearRet
    /\ UNCHANGED <<server_process, server_info, procLock, infoLock, spawned, op, loc, lastSec>>

\* child.wait().await: returns once the process has exited, or fails and the
\* error is logged
StopWait(t, waited) ==
    /\ pc[t] = "stop_wait"
    /\ waited => Unwrap(loc[t].child) \notin alive
    /\ Goto(t, "stop_info_lock")
    /\ ClearRet
    /\ UNCHANGED <<server_process, server_info, procLock, infoLock, alive,
                   spawned, op, loc, lastSec>>

\* self.server_info.lock().await
StopInfoAcquire(t) ==
    /\ pc[t] = "stop_info_lock"
    /\ infoLock = NoTask
    /\ infoLock' = t
    /\ Goto(t, "stop_info")
    /\ ClearRet
    /\ UNCHANGED <<server_process, server_info, procLock, alive, spawned, op, loc, lastSec>>

\* mutant: stop_server also clears the address of the stored info
StoppedInfoCleared(info) ==
    [info EXCEPT !.status = StatusStopped, !.base_url = <<>>]

\* the status written by stop_server when an info is stored
StoppedInfo(info) == [info EXCEPT !.status = StatusStopped]

\* mark the stored info Stopped (an absent info stays absent), return Ok(())
StopInfo(t) ==
    /\ pc[t] = "stop_info"
    /\ infoLock = t
    /\ server_info' = IF IsSome(server_info)
                      THEN Some(StoppedInfo(Unwrap(server_info)))
                      ELSE None
    /\ infoLock' = NoTask
    /\ procLock' = NoTask
    /\ Return(t, OkUnit, server_process, server_info', <<>>, 0)
    /\ UNCHANGED <<server_process, alive, spawned>>

\* --------------------------------------------------------- get_server_info
\* mutant: the stored info is taken out of the state instead of cloned
GetReadTaking(t) ==
    /\ pc[t] = "get_lock"
    /\ infoLock = NoTask
    /\ server_info' = None
    /\ Return(t, Ok(server_info), server_process, None, <<>>,
                 loc[t].attempts)
    /\ UNCHANGED <<server_process, procLock, infoLock, alive, spawned>>

\* self.server_info.lock().await.clone(): the guard is a temporary, dropped
\* at the end of the statement
GetRead(t) ==
    /\ pc[t] = "get_lock"
    /\ infoLock = NoTask
    /\ Return(t, Ok(server_info), server_process, server_info, <<>>,
                 loc[t].attempts)
    /\ UNCHANGED <<server_process, server_info, procLock, infoLock, alive,
                   spawned>>

\* ------------------------------------------------------ session operations
\* create_session, list_sessions, get_session_messages, send_chat_message and
\* abort_opencode_session: snapshot the info, then one HTTP request
RequestOutcomes == {"ok", "send failed", "error status", "parse failed"}

\* mutant: the snapshot does not check that an info is stored
SessSnapshotUnguarded(t) ==
    /\ pc[t] = "sess_lock"
    /\ infoLock = NoTask
    /\ Goto(t, "sess_request")
    /\ ClearRet
    /\ UNCHANGED <<server_process, server_info, procLock, infoLock, alive,
                   spawned, op, loc, lastSec>>

\* .lock().await.as_ref().ok_or_else(|| anyhow!("OpenCode server not
\* running"))?.clone(); of the snapshot only base_url is used afterwards
SessSnapshot(t) ==
    /\ pc[t] = "sess_lock"
    /\ infoLock = NoTask
    /\ IF IsSome(server_info)
       THEN /\ loc' = [loc EXCEPT ![t].url = Some(Unwrap(server_info).base_url),
                                  ![t].preInfo = server_info]
            /\ Goto(t, "sess_request")
            /\ ClearRet /\ UNCHANGED <<op, lastSec>>
       ELSE Return(t, Err(ErrNotRunning), server_process, server_info, <<>>,
                 loc[t].attempts)
    /\ UNCHANGED <<server_process, server_info, procLock, infoLock, alive,
                   spawned>>

\* the HTTP request to the snapshot's base_url is sent
SessRequest(t) ==
    /\ pc[t] = "sess_request"
    /\ loc' = [loc EXCEPT ![t].reqs = @ + 1]
    /\ Goto(t, "sess_response")
    /\ ClearRet
    /\ UNCHANGED <<server_process, server_info, procLock, infoLock, alive,
                   spawned, op, lastSec>>

\* .send().await fails, the status is not a success, the body does not
\* parse, or the parsed value is returned
SessResponse(t, outcome) ==
    /\ pc[t] = "sess_response"
    /\ outcome \in RequestOutcomes
    /\ Return(t, IF outcome = "ok" THEN Ok(op[t]) ELSE Err(outcome),
              server_process, server_info, <<>>,
                 loc[t].attempts)
    /\ UNCHANGED <<server_process, server_info, procLock, infoLock, alive,
                   spawned>>

\* --------------------------------------------------- event relay: literals
JsonMessageUpdatedPre ==
    <<"{", "\"", "t", "y", "p", "e", "\"", ":", "\"", "m", "e", "s", "s",
      "a", "g", "e", ".", "u", "p", "d", "a", "t", "e", "d", "\"", ",",
      "\"", "i", "n", "f", "o", "\"", ":", "{", "\"", "i", "d", "\"", ":",
      "\"", "m", "\"", ",", "\"", "r", "o", "l", "e", "\"", ":", "\"", "u",
      "s", "e", "r", "\"", ",", "\"", "s", "e", "s", "s", "i", "o", "n",
      "I", "D", "\"", ":", "\"">>
JsonMessageUpdatedSuf ==
    <<"\"", ",", "\"", "p", "a", "r", "t", "s", "\"", ":", "[", "]", ",",
      "\"", "t", "i", "m", "e", "\"", ":", "{", "\"", "c", "r", "e", "a",
      "t", "e", "d", "\"", ":", "1", ",", "\"", "u", "p", "d", "a", "t",
      "e", "d", "\"", ":", "2", "}", "}", "}">>

JsonMessagePartUpdatedPre ==
    <<"{", "\"", "t", "y", "p", "e", "\"", ":", "\"", "m", "e", "s", "s",
      "a", "g", "e", ".", "p", "a", "r", "t", ".", "u", "p", "d", "a", "t",
      "e", "d", "\"", ",", "\"", "p", "a", "r", "t", "\"", ":", "{", "\"",
      "t", "y", "p", "e", "\"", ":", "\"", "s", "t", "e", "p", "-", "s",
      "t", "a", "r", "t", "\"", "}", ",", "\"", "s", "e", "s", "s", "i",
      "o", "n", "I", "D", "\"", ":", "\"">>
JsonMessagePartUpdatedSuf ==
    <<"\"", ",", "\"", "m", "e", "s", "s", "a", "g", "e", "I", "D", "\"",
      ":", "\"", "m", "\"", "}">>

JsonMessageRemovedPre ==
    <<"{", "\"", "t", "y", "p", "e", "\"", ":", "\"", "m", "e", "s", "s",
      "a", "g", "e", ".", "r", "e", "m", "o", "v", "e", "d", "\"", ",",
      "\"", "s", "e", "s", "s", "i", "o", "n", "I", "D", "\"", ":", "\"">>
JsonMessageRemovedSuf ==
    <<"\"", ",", "\"", "m", "e", "s", "s", "a", "g", "e", "I", "D", "\"",
      ":", "\"", "m", "\"", "}">>

JsonSessionUpdatedPre ==
    <<"{", "\"", "t", "y", "p", "e", "\"", ":", "\"", "s", "e", "s", "s",
      "i", "o", "n", ".", "u", "p", "d", "a", "t", "e", "d", "\"", ",",
      "\"", "i", "n", "f", "o", "\"", ":", "{", "\"", "i", "d", "\"", ":",
      "\"">>
JsonSessionUpdatedSuf ==
    <<"\"", ",", "\"", "t", "i", "t", "l", "e", "\"", ":", "\"", "t", "\"",
      ",", "\"", "v", "e", "r", "s", "i", "o", "n", "\"", ":", "\"", "1",
      "\"", ",", "\"", "t", "i", "m", "e", "\"", ":", "{", "\"", "c", "r",
      "e", "a", "t", "e", "d", "\"", ":", "1", ",", "\"", "u", "p", "d",
      "a", "t", "e", "d", "\"", ":", "2", "}", "}", "}">>

JsonSessionDeletedPre ==
    <<"{", "\"", "t", "y", "p", "e", "\"", ":", "\"", "s", "e", "s", "s",
      "i", "o", "n", ".", "d", "e", "l", "e", "t", "e", "d", "\"", ",",
      "\"", "i", "n", "f", "o", "\"", ":", "{", "\"", "i", "d", "\"", ":",
      "\"">>
JsonSessionDeletedSuf ==
    <<"\"", ",", "\"", "t", "i", "t", "l", "e", "\"", ":", "\"", "t", "\"",
      ",", "\"", "v", "e", "r", "s", "i", "o", "n", "\"", ":", "\"", "1",
      "\"", ",", "\"", "t", "i", "m", "e", "\"", ":", "{", "\"", "c", "r",
      "e", "a", "t", "e", "d", "\"", ":", "1", ",", "\"", "u", "p", "d",
      "a", "t", "e", "d", "\"", ":", "2", "}", "}", "}">>

JsonSessionIdlePre ==
    <<"{", "\"", "t", "y", "p", "e", "\"", ":", "\"", "s", "e", "s", "s",
      "i", "o", "n", ".", "i", "d", "l", "e", "\"", ",", "\"", "s", "e",
      "s", "s", "i", "o", "n", "I", "D", "\"", ":", "\"">>
JsonSessionIdleSuf ==
    <<"\"", "}">>

JsonSessionErrorPre ==
    <<"{", "\"", "t", "y", "p", "e", "\"", ":", "\"", "s", "e", "s", "s",
      "i", "o", "n", ".", "e", "r", "r", "o", "r", "\"", ",", "\"", "s",
      "e", "s", "s", "i", "o", "n", "I", "D", "\"", ":", "\"">>
JsonSessionErrorSuf ==
    <<"\"", ",", "\"", "e", "r", "r", "o", "r", "\"", ":", "\"", "e", "\"",
      "}">>

JsonSessionErrorNoSid ==
    <<"{", "\"", "t", "y", "p", "e", "\"", ":", "\"", "s", "e", "s", "s",
      "i", "o", "n", ".", "e", "r", "r", "o", "r", "\"", ",", "\"", "e",
      "r", "r", "o", "r", "\"", ":", "\"", "e", "\"", "}">>

JsonUnknownType ==
    <<"{", "\"", "t", "y", "p", "e", "\"", ":", "\"", "s", "t", "o", "r",
      "a", "g", "e", ".", "w", "r", "i", "t", "e", "\"", "}">>

TextNotJson ==
    <<"n", "o", "t", "-", "j", "s", "o", "n">>

TextBraces ==
    <<"{", "}">>

TextPing ==
    <<":", " ", "p", "i", "n", "g">>

DataPrefix ==
    <<"d", "a", "t", "a", ":", " ">>

SidAbc ==
    <<"a", "b", "c">>

\* ------------------------------------------------------- event relay: text
\* A stream is a sequence of bytes.  ASCII bytes are one-character strings;
\* ByteC3 ByteA9 is the two-byte UTF-8 encoding of the character CharE9.
\* A decoded buffer is a sequence of characters.
ByteC3 == "<C3>"
ByteA9 == "<A9>"
CharE9 == "<U+E9>"
CharReplacement == "<U+FFFD>"

\* String::from_utf8_lossy on one chunk: a complete ByteC3 ByteA9 pair is
\* one character, a lead byte without its continuation and a continuation
\* byte without its lead each become U+FFFD.
Consumed == "<consumed>"

LossyAt(chunk, i) ==
    IF chunk[i] = ByteC3
    THEN IF i < Len(chunk) /\ chunk[i + 1] = ByteA9
         THEN CharE9 ELSE CharReplacement
    ELSE IF chunk[i] = ByteA9
         THEN IF i > 1 /\ chunk[i - 1] = ByteC3
              THEN Consumed ELSE CharReplacement
         ELSE chunk[i]

from_utf8_lossy(chunk) ==
    SelectSeq([i \in 1..Len(chunk) |-> LossyAt(chunk, i)],
              LAMBDA c : c # Consumed)

\* buffer.find("\n\n"): index of the first blank-line separator, 0 if none.
FindSeparator(buffer) ==
    LET hits == {i \in 1..(Len(buffer) - 1) :
                    buffer[i] = "\n" /\ buffer[i + 1] = "\n"}
    IN  IF hits = {} THEN 0
        ELSE CHOOSE i \in hits : \A j \in hits : i <= j

\* str::lines on a record (the streams here carry no carriage returns):
\* split at "\n", a final empty piece is not a line.
RECURSIVE LinesFrom(_, _)
LinesFrom(text, i) ==
    IF i > Len(text) THEN <<>>
    ELSE LET ends == {j \in i..Len(text) : text[j] = "\n"}
         IN  IF ends = {}
             THEN <<SubSeq(text, i, Len(text))>>
             ELSE LET j == CHOOSE e \in ends : \A f \in ends : e <= f
                  IN  <<SubSeq(text, i, j - 1)>> \o LinesFrom(text, j + 1)

Lines(text) == LinesFrom(text, 1)

IsWhitespace(c) == c \in {" ", "\t", "\n", "\r"}

\* str::trim
Trim(text) ==
    LET keep == {i \in 1..Len(text) : ~IsWhitespace(text[i])}
    IN  IF keep = {} THEN <<>>
        ELSE SubSeq(text, CHOOSE i \in keep : \A j \in keep : i <= j,
                          CHOOSE i \in keep : \A j \in keep : i >= j)

\* line.strip_prefix("data: ")
StripDataPrefix(line) ==
    IF LitAt(line, DataPrefix, 1)
    THEN Some(SubSeq(line, Len(DataPrefix) + 1, Len(line)))
    ELSE None

\* ----------------------------------------------------- event relay: decode
\* serde_json::from_str::<OpenCodeEvent> on the payloads the streams carry:
\* each event type is recognised by the text around its session identifier,
\* which is any JSON string without quote, backslash or control character.
\* Whitespace around the document is accepted.
IsJsonStringBody(text) ==
    \A i \in 1..Len(text) : text[i] \notin {"\"", "\\", "\n", "\t", "\r"}

Matches(data, pre, suf) ==
    /\ Len(data) >= Len(pre) + Len(suf)
    /\ LitAt(data, pre, 1)
    /\ LitAt(data, suf, Len(data) - Len(suf) + 1)
    /\ IsJsonStringBody(SubSeq(data, Len(pre) + 1, Len(data) - Len(suf)))

Hole(data, pre, suf) == SubSeq(data, Len(pre) + 1, Len(data) - Len(suf))

OpenCodeEvent(type, sid) == [type |-> type, session_id |-> sid]

DecodeFailed == [ok |-> FALSE, event |-> OpenCodeEvent("", None)]
Decoded(type, sid) == [ok |-> TRUE, event |-> OpenCodeEvent(type, sid)]

EventTypes == <<"MessageUpdated", "MessagePartUpdated", "MessageRemoved",
                "SessionUpdated", "SessionDeleted", "SessionIdle",
                "SessionError">>

JsonPre(type) ==
    CASE type = "MessageUpdated" -> JsonMessageUpdatedPre
      [] type = "MessagePartUpdated" -> JsonMessagePartUpdatedPre
      [] type = "MessageRemoved" -> JsonMessageRemovedPre
      [] type = "SessionUpdated" -> JsonSessionUpdatedPre
      [] type = "SessionDeleted" -> JsonSessionDeletedPre
      [] type = "SessionIdle" -> JsonSessionIdlePre
      [] type = "SessionError" -> JsonSessionErrorPre

JsonSuf(type) ==
    CASE type = "MessageUpdated" -> JsonMessageUpdatedSuf
      [] type = "MessagePartUpdated" -> JsonMessagePartUpdatedSuf
      [] type = "MessageRemoved" -> JsonMessageRemovedSuf
      [] type = "SessionUpdated" -> JsonSessionUpdatedSuf
      [] type = "SessionDeleted" -> JsonSessionDeletedSuf
      [] type = "SessionIdle" -> JsonSessionIdleSuf
      [] type = "SessionError" -> JsonSessionErrorSuf

\* The JSON text of an event of the given type and session identifier.
Json(type, sid) == JsonPre(type) \o sid \o JsonSuf(type)

from_str(data) ==
    LET doc == Trim(data)
        hits == {k \in 1..Len(EventTypes) :
                    Matches(doc, JsonPre(EventTypes[k]), JsonSuf(EventTypes[k]))}
    IN  IF doc = JsonSessionErrorNoSid THEN Decoded("SessionError", None)
        ELSE IF hits = {} THEN DecodeFailed
        ELSE LET type == EventTypes[CHOOSE k \in hits : TRUE]
             IN  Decoded(type, Some(Hole(doc, JsonPre(type), JsonSuf(type))))

\* ------------------------------------------------------- event relay: emit
\* A topic is the global topic name, followed for a session-scoped topic by
\* a colon and the characters of the session identifier.
GlobalTopic(name) == <<name>>
ScopedTopic(name, sid) == <<name, ":">> \o sid

TopicRaw == GlobalTopic("opencode-raw-event")
TopicGeneric == GlobalTopic("opencode-event")

\* What a publication carries: the kind of value serialised, the session
\* identifier inside it (if any) and, for a raw event, the payload text.
Payload(of, sid, text) == [of |-> of, session_id |-> sid, text |-> text]

Publication(topic, payload) == [topic |-> topic, payload |-> payload]

\* app_handle.emit for each publication in turn; the `?` after a failed
\* emit abandons the rest.  fails is the set of topics whose emit fails.
RECURSIVE EmitAll(_, _, _)
EmitAll(pubs, k, fails) ==
    IF k > Len(pubs) THEN [pubs |-> <<>>, ok |-> TRUE]
    ELSE IF pubs[k].topic \in fails THEN [pubs |-> <<>>, ok |-> FALSE]
    ELSE LET rest == EmitAll(pubs, k + 1, fails)
         IN  [pubs |-> <<pubs[k]>> \o rest.pubs, ok |-> rest.ok]

\* mutant: a dedicated arm for MessageRemoved
GlobalNameDedicated(type) ==
    CASE type = "MessageUpdated" -> "opencode-message-updated"
      [] type = "MessagePartUpdated" -> "opencode-message-part-updated"
      [] type = "MessageRemoved" -> "opencode-message-removed"
      [] type = "SessionUpdated" -> "opencode-session-updated"
      [] type = "SessionDeleted" -> "opencode-session-deleted"
      [] type = "SessionIdle" -> "opencode-session-idle"
      [] type = "SessionError" -> "opencode-session-error"
      [] OTHER -> "opencode-event"

\* the global topic of each match arm of emit_opencode_event
GlobalName(type) ==
    CASE type = "MessageUpdated" -> "opencode-message-updated"
      [] type = "MessagePartUpdated" -> "opencode-message-part-updated"
      [] type = "SessionUpdated" -> "opencode-session-updated"
      [] type = "SessionDeleted" -> "opencode-session-deleted"
      [] type = "SessionIdle" -> "opencode-session-idle"
      [] type = "SessionError" -> "opencode-session-error"
      [] OTHER -> "opencode-event"

EventPayload(event) ==
    CASE event.type = "MessageUpdated" ->
            Payload("OpenCodeMessage", event.session_id, <<>>)
      [] event.type = "MessagePartUpdated" ->
            Payload("part,sessionId,messageId", event.session_id, <<>>)
      [] event.type \in {"SessionUpdated", "SessionDeleted"} ->
            Payload("OpenCodeSession", event.session_id, <<>>)
      [] event.type = "SessionIdle" ->
            Payload("String", event.session_id, <<>>)
      [] event.type = "SessionError" ->
            Payload("sessionId,error", event.session_id, <<>>)
      [] OTHER ->
            Payload("OpenCodeEvent", event.session_id, <<>>)

\* The Err arm of handle_sse_event: the payload text on the raw topic.
RawEmitsNothing(data) == <<>>

RawEmits(data) == <<Publication(TopicRaw, Payload("str", None, data))>>

ScopedEmitsNothing(event) == <<>>

ScopedEmitsForAll(event) ==
    IF IsSome(event.session_id)
    THEN <<Publication(ScopedTopic(GlobalName(event.type),
                                   Unwrap(event.session_id)),
                       EventPayload(event))>>
    ELSE <<>>

\* The session-scoped emit of the match arm, absent for the arms that
\* publish globally only and for a session error without identifier.
ScopedEmits(event) ==
    CASE event.type \in {"MessageUpdated", "MessagePartUpdated",
                         "SessionIdle"} ->
            <<Publication(ScopedTopic(GlobalName(event.type),
                                      Unwrap(event.session_id)),
                          EventPayload(event))>>
      [] event.type = "SessionError" /\ IsSome(event.session_id) ->
            <<Publication(ScopedTopic(GlobalName(event.type),
                                      Unwrap(event.session_id)),
                          EventPayload(event))>>
      [] OTHER -> <<>>

emit_opencode_event(event, fails) ==
    EmitAll(<<Publication(GlobalTopic(GlobalName(event.type)),
                          EventPayload(event))>> \o ScopedEmits(event),
            1, fails)

\* mutant: empty and "{}" payloads are decoded like any other
RECURSIVE HandleLinesNoSkip(_, _, _)
HandleLinesNoSkip(lines, k, fails) ==
    IF k > Len(lines) THEN [pubs |-> <<>>, ok |-> TRUE]
    ELSE LET stripped == StripDataPrefix(lines[k])
             data == Unwrap(stripped)
             rest == HandleLinesNoSkip(lines, k + 1, fails)
         IN  IF ~IsSome(stripped) THEN rest
             ELSE LET d == from_str(data)
                      e == IF d.ok
                           THEN emit_opencode_event(d.event, fails)
                           ELSE EmitAll(RawEmits(data), 1, fails)
                  IN  IF e.ok
                      THEN [pubs |-> e.pubs \o rest.pubs, ok |-> rest.ok]
                      ELSE [pubs |-> e.pubs, ok |-> FALSE]

\* handle_sse_event: every "data: " line of the record in turn.
RECURSIVE HandleLines(_, _, _)
HandleLines(lines, k, fails) ==
    IF k > Len(lines) THEN [pubs |-> <<>>, ok |-> TRUE]
    ELSE LET stripped == StripDataPrefix(lines[k])
             data == Unwrap(stripped)
             rest == HandleLines(lines, k + 1, fails)
         IN  IF ~IsSome(stripped) THEN rest
             ELSE IF Trim(data) = <<>> \/ data = TextBraces THEN rest
             ELSE LET d == from_str(data)
                      e == IF d.ok
                           THEN emit_opencode_event(d.event, fails)
                           ELSE EmitAll(RawEmits(data), 1, fails)
                  IN  IF e.ok
                      THEN [pubs |-> e.pubs \o rest.pubs, ok |-> rest.ok]
                      ELSE [pubs |-> e.pubs, ok |-> FALSE]

handle_sse_event(event_str, fails) == HandleLines(Lines(event_str), 1, fails)

\* The inner loop of process_event_stream: cut every complete record off
\* the front of the buffer and handle it; a failed record is only logged.
\* log collects, per record, its text and what handling it published.
\* a loop that gives up on the buffer at the first record whose handling fails
RECURSIVE DrainUntilFailure(_, _, _)
DrainUntilFailure(buffer, log, fails) ==
    LET event_end == FindSeparator(buffer)
        event_str == SubSeq(buffer, 1, event_end - 1)
        h == handle_sse_event(event_str, fails)
        rest == SubSeq(buffer, event_end + 2, Len(buffer))
        entry == [record |-> event_str, pubs |-> h.pubs, ok |-> h.ok]
    IN  IF event_end = 0 THEN [buffer |-> buffer, log |-> log]
        ELSE IF h.ok THEN DrainUntilFailure(rest, Append(log, entry), fails)
        ELSE [buffer |-> rest, log |-> Append(log, entry)]

RECURSIVE Drain(_, _, _)
Drain(buffer, log, fails) ==
    LET event_end == FindSeparator(buffer)
        event_str == SubSeq(buffer, 1, event_end - 1)
        h == handle_sse_event(event_str, fails)
    IN  IF event_end = 0 THEN [buffer |-> buffer, log |-> log]
        ELSE Drain(SubSeq(buffer, event_end + 2, Len(buffer)),
                   Append(log, [record |-> event_str, pubs |-> h.pubs,
                                ok |-> h.ok]),
                   fails)

RECURSIVE Flatten(_, _)
Flatten(log, k) ==
    IF k > Len(log) THEN <<>> ELSE log[k].pubs \o Flatten(log, k + 1)

\* ------------------------------------------------------ event relay: state
VARIABLES
    stream,       \* the bytes the server sends on /event
    failTopics,   \* topics on which app_handle.emit fails
    rpos,         \* bytes of the stream already delivered in chunks
    buffer,       \* process_event_stream: buffer
    published,    \* publications made on the event bus, in order
    handled,      \* per handled record: its text, its publications, its result
    relay         \* "none", "reading", "finished" (Ok) or "failed" (Err)

relayVars == <<stream, failTopics, rpos, buffer, published, handled, relay>>

DataLine(payload) == DataPrefix \o payload \o <<"\n">>
Record(lines) == lines \o <<"\n">>

SidE9 == <<ByteC3, ByteA9>>

\* One record per event type, and the records the relay must skip or pass
\* on raw.
SessionRecords ==
    {Record(DataLine(Json(EventTypes[k], SidAbc))) : k \in 1..Len(EventTypes)}

OtherRecords ==
    {Record(DataLine(JsonSessionErrorNoSid)),
     Record(DataLine(Json("SessionIdle", SidE9))),
     Record(DataLine(TextNotJson)),
     Record(DataLine(JsonUnknownType)),
     Record(DataLine(TextBraces)),
     Record(DataLine(<<" ">>)),
     Record(TextPing \o <<"\n">>),
     Record(DataLine(TextNotJson) \o DataLine(Json("SessionIdle", SidAbc)))}

FirstRecords ==
    {Record(DataLine(TextNotJson)),
     Record(DataLine(Json("SessionIdle", SidE9))),
     Record(DataLine(Json("SessionIdle", SidAbc))),
     Record(DataLine(Json("MessageUpdated", SidAbc))),
     Record(DataLine(TextBraces))}

SecondRecords ==
    {Record(DataLine(Json("SessionIdle", SidAbc))),
     Record(DataLine(JsonSessionErrorNoSid)),
     DataPrefix \o TextNotJson}

Streams ==
    SessionRecords \cup OtherRecords
        \cup {a \o b : a \in FirstRecords, b \in SecondRecords}

FailChoices ==
    {{}, {GlobalTopic("opencode-session-idle")}, {TopicRaw},
     {ScopedTopic("opencode-message-updated", SidAbc)}}

RelayIdle ==
    /\ stream = <<>>
    /\ failTopics = {}
    /\ rpos = 0
    /\ buffer = <<>>
    /\ published = <<>>
    /\ handled = <<>>
    /\ relay = "none"

\* The state in which the spawned task enters process_event_stream.
RelayInit ==
    /\ stream \in Streams
    /\ failTopics \in FailChoices
    /\ rpos = 0
    /\ buffer = <<>>
    /\ published = <<>>
    /\ handled = <<>>
    /\ relay = "reading"

\* The sizes the next network read may have: up to MaxChunk bytes, the
\* rest of the current line, or all that is left of the stream.
ChunkSizes ==
    LET left == Len(stream) - rpos
        ends == {j \in 1..left : stream[rpos + j] = "\n"}
        line == IF ends = {} THEN left
                ELSE CHOOSE j \in ends : \A f \in ends : j <= f
    IN  {n \in (1..MaxChunk) \cup {line, left} : 1 <= n /\ n <= left}

\* stream.next() yields a chunk of n bytes.
RelayChunk(n) ==
    /\ relay = "reading"
    /\ n \in ChunkSizes
    /\ LET chunk == SubSeq(stream, rpos + 1, rpos + n)
           d == Drain(buffer \o from_utf8_lossy(chunk), handled, failTopics)
       IN  /\ buffer' = d.buffer
           /\ handled' = d.log
           /\ published' = Flatten(d.log, 1)
    /\ rpos' = rpos + n
    /\ UNCHANGED <<stream, failTopics, relay>>

\* stream.next() yields None: the server closed the stream.
RelayEof ==
    /\ relay = "reading"
    /\ rpos = Len(stream)
    /\ relay' = "finished"
    /\ UNCHANGED <<stream, failTopics, rpos, buffer, published, handled>>

\* stream.next() yields an error: process_event_stream returns it.
RelayChunkError ==
    /\ relay = "reading"
    /\ relay' = "failed"
    /\ UNCHANGED <<stream, failTopics, rpos, buffer, published, handled>>

\* ---------------------------------------------------- connect_event_stream
\* what the server sends on the streams opened by connect_event_stream: a
\* keep-alive comment record
ConnectStreams == {Record(<<":", "\n">>)}

ConnectOutcomes == {"ok", "Failed to connect to event stream",
                    "Event stream connection failed with status"}

\* self.server_info.lock().await.as_ref().ok_or_else(..)?.clone()
ConnSnapshot(t) ==
    /\ pc[t] = "conn_lock"
    /\ infoLock = NoTask
    /\ IF IsSome(server_info)
       THEN /\ loc' = [loc EXCEPT ![t].url = Some(Unwrap(server_info).base_url),
                                  ![t].preInfo = server_info]
            /\ Goto(t, "conn_request")
            /\ ClearRet /\ UNCHANGED <<op, lastSec>>
       ELSE Return(t, Err(ErrNotRunning), server_process, server_info, <<>>,
                   loc[t].attempts)
    /\ UNCHANGED <<server_process, server_info, procLock, infoLock, alive,
                   spawned, relays, relayVars, portVars>>

\* GET {base_url}/event is sent
ConnRequest(t) ==
    /\ pc[t] = "conn_request"
    /\ loc' = [loc EXCEPT ![t].reqs = @ + 1]
    /\ Goto(t, "conn_response")
    /\ ClearRet
    /\ UNCHANGED <<server_process, server_info, procLock, infoLock, alive,
                   spawned, op, lastSec, relays, relayVars, portVars>>

\* tokio::spawn(process_event_stream(response, app_handle)): one more relay
\* task; the first one launched is followed step by step
SpawnRelay(s) ==
    /\ relays' = relays + 1
    /\ IF relay = "none"
       THEN /\ relay' = "reading"
            /\ stream' = s
            /\ UNCHANGED <<failTopics, rpos, buffer, published, handled>>
       ELSE UNCHANGED relayVars

\* a connect that launches the relay task before looking at the response
ConnResponseSpawnFirst(t, outcome, s) ==
    /\ pc[t] = "conn_response"
    /\ outcome \in ConnectOutcomes
    /\ s \in ConnectStreams
    /\ SpawnRelay(s)
    /\ Return(t, IF outcome = "ok" THEN OkUnit ELSE Err(outcome),
              server_process, server_info, <<>>, loc[t].attempts)
    /\ UNCHANGED <<server_process, server_info, procLock, infoLock, alive,
                   spawned, portVars>>

\* .send().await fails or the status is not a success: the error is
\* returned; otherwise the relay task is launched and Ok(()) returned
ConnResponse(t, outcome, s) ==
    /\ pc[t] = "conn_response"
    /\ outcome \in ConnectOutcomes
    /\ s \in ConnectStreams
    /\ IF outcome = "ok"
       THEN /\ SpawnRelay(s)
            /\ Return(t, OkUnit, server_process, server_info, <<>>,
                      loc[t].attempts)
       ELSE /\ Return(t, Err(outcome), server_process, server_info, <<>>,
                      loc[t].attempts)
            /\ UNCHANGED <<relays, relayVars>>
    /\ UNCHANGED <<server_process, server_info, procLock, infoLock, alive,
                   spawned, portVars>>

\* ------------------------------------------------- execute_opencode_chat
\* chat[t] is the call of the state that task t's execute_opencode_chat is
\* making or about to make ("none" outside execute_opencode_chat)
VARIABLES chat

NoChat == [t \in Tasks |-> "none"]

\* the method of OpenCodeState behind each stage
ChatOp(stage) ==
    CASE stage = "get" -> "get_server_info"
      [] stage = "start" -> "start_server"
      [] stage = "create" -> "create_session"
      [] stage = "connect" -> "connect_event_stream"
      [] stage = "send" -> "send_chat_message"

\* what execute_opencode_chat does with the result of a stage: a stored info
\* of any status skips start_server, `?` leaves on an error of start_server,
\* create_session and send_chat_message, an error of connect_event_stream is
\* only logged
ChatAfter(stage, res) ==
    CASE stage = "get" -> IF IsSome(Unwrap(res.val)) THEN "create" ELSE "start"
      [] stage = "start" -> IF res.ok THEN "create" ELSE "none"
      [] stage = "create" -> IF res.ok THEN "connect" ELSE "none"
      [] stage = "connect" -> "send"
      [] stage = "send" -> "none"

\* the stage moves on in the step in which its call returns
ChatAdvance ==
    chat' = [t \in Tasks |->
                IF chat[t] # "none" /\ lastRet'.task = t
                THEN ChatAfter(chat[t], lastRet'.res)
                ELSE chat[t]]

ChatsPending == Cardinality({t \in Tasks : chat[t] # "none"})

\* execute_opencode_chat is called and calls get_server_info
ChatBegin(t) ==
    /\ chat[t] = "none"
    /\ relays + ConnectsPending + ChatsPending < MaxRelays
    /\ Call(t, "get_server_info")
    /\ chat' = [chat EXCEPT ![t] = "get"]
    /\ UNCHANGED <<relayVars, relays, portVars>>

\* execute_opencode_chat makes its next call
ChatCall(t) ==
    /\ chat[t] \notin {"none", "get"}
    /\ Call(t, ChatOp(chat[t]))
    /\ UNCHANGED <<chat, relayVars, relays, portVars>>

\* ----------------------------------------------------------- specifications
SupervisorOps == {"start_server", "stop_server", "get_server_info"}

\* a step of the supervisor or of a session operation leaves the relay alone,
\* a step of the relay leaves the shared state alone
Sup(A) == A /\ ChatAdvance /\ UNCHANGED <<relayVars, relays, portVars>>
Rel(A) == A /\ UNCHANGED <<supVars, relays, portVars, chat>>

\* a step of the relay task running beside the callers
Bg(A) ==
    /\ A
    /\ ClearRet
    /\ UNCHANGED <<server_process, server_info, procLock, infoLock, alive,
                   spawned, pc, op, loc, lastSec, relays, portVars, chat>>

\* steps of start_server, stop_server and get_server_info, and the sidecar
\* exiting on its own
SupSteps ==
    \/ \E p \in 1..MaxSpawns : Sup(ProcExit(p))
    \/ \E t \in Tasks : Sup(StartAcquire(t))
    \/ \E t \in Tasks : Sup(StartCachedAcquire(t))
    \/ \E t \in Tasks : Sup(StartCached(t))
    \/ \E t \in Tasks : \E o \in ResolveOutcomes : Sup(StartResolve(t, o))
    \/ \E t \in Tasks : \E s \in StdoutScripts : Sup(StartDiscover(t, s))
    \/ \E t \in Tasks : \E n \in FirstOkChoices : Sup(StartWait(t, n))
    \/ \E t \in Tasks : Sup(StartStoreAcquire(t))
    \/ \E t \in Tasks : \E b \in BOOLEAN : Sup(StartStore(t, b))
    \/ \E t \in Tasks : Sup(StopAcquire(t))
    \/ \E t \in Tasks : \E b \in BOOLEAN : Sup(StopKill(t, b))
    \/ \E t \in Tasks : \E b \in BOOLEAN : Sup(StopWait(t, b))
    \/ \E t \in Tasks : Sup(StopInfoAcquire(t))
    \/ \E t \in Tasks : Sup(StopInfo(t))
    \/ \E t \in Tasks : Sup(GetRead(t))

\* steps of the session operations
SessSteps ==
    \/ \E t \in Tasks : Sup(SessSnapshot(t))
    \/ \E t \in Tasks : Sup(SessRequest(t))
    \/ \E t \in Tasks : \E o \in RequestOutcomes : Sup(SessResponse(t, o))

vars == <<supVars, relayVars, relays, portVars, chat>>

Init == SupInit /\ RelayIdle /\ relays = 0 /\ PortIdle /\ chat = NoChat

\* Spec: two tasks call the supervisor's operations concurrently
Next ==
    \/ \E t \in Tasks : \E o \in SupervisorOps : Sup(Call(t, o))
    \/ SupSteps

Spec == Init /\ [][Next]_vars

\* SpecClient: task t1 starts and stops the sidecar while task t2 calls the
\* session operations and get_server_info
NextClient ==
    \/ \E o \in {"start_server", "stop_server"} : Sup(Call("t1", o))
    \/ \E o \in SessionOps \cup {"get_server_info"} : Sup(Call("t2", o))
    \/ SupSteps
    \/ SessSteps

SpecClient == Init /\ [][NextClient]_vars

\* SpecRelay: one relay task reads a stream to its end, in chunks of any of
\* the sizes of ChunkSizes
InitRelay == SupInit /\ RelayInit /\ relays = 1 /\ PortIdle /\ chat = NoChat

NextRelay ==
    \/ \E n \in ChunkSizes : Rel(RelayChunk(n))
    \/ Rel(RelayEof)
    \/ Rel(RelayChunkError)

SpecRelay == InitRelay /\ [][NextRelay]_vars

\* SpecPort: port extraction and discovery applied to what the sidecar prints
InitPort == SupInit /\ RelayIdle /\ relays = 0 /\ PortInit /\ chat = NoChat

NextPort == PortRun /\ UNCHANGED <<supVars, relayVars, relays, chat>>

SpecPort == InitPort /\ [][NextPort]_vars

\* SpecConnect: one task calls the operations of the supervisor, the session
\* client and connect_event_stream one after the other, while the relay task
\* launched by connect_event_stream reads its stream
AllOps == SupervisorOps \cup SessionOps \cup {"connect_event_stream"}

ConnSteps ==
    \/ \E t \in Tasks : ConnSnapshot(t) /\ ChatAdvance
    \/ \E t \in Tasks : ConnRequest(t) /\ ChatAdvance
    \/ \E t \in Tasks : \E o \in ConnectOutcomes :
          \E s \in ConnectStreams : ConnResponse(t, o, s) /\ ChatAdvance

NextConnect ==
    \/ \E o \in AllOps : Sup(Call("t1", o))
    \/ SupSteps
    \/ SessSteps
    \/ ConnSteps
    \/ \E n \in ChunkSizes : Bg(RelayChunk(n))
    \/ Bg(RelayEof)
    \/ Bg(RelayChunkError)

SpecConnect == Init /\ [][NextConnect]_vars

\* SpecChat: one task calls start_server, stop_server and
\* execute_opencode_chat one after the other, the relay task launched by the
\* first connect_event_stream reading its stream
NextChat ==
    \/ \E o \in {"start_server", "stop_server"} :
          chat["t1"] = "none" /\ Sup(Call("t1", o))
    \/ ChatBegin("t1")
    \/ ChatCall("t1")
    \/ SupSteps
    \/ SessSteps
    \/ ConnSteps
    \/ \E n \in ChunkSizes : Bg(RelayChunk(n))
    \/ Bg(RelayEof)
    \/ Bg(RelayChunkError)

SpecChat == Init /\ [][NextChat]_vars

\* SpecLocks: task t1 calls start_server and stop_server while task t2 calls
\* these, get_server_info, a session operation and connect_event_stream;
\* tokio schedules
\* every task that can run and its Mutex hands the lock to every waiter in
\* turn, so a task that can take a step again and again takes it
LockOps == {"start_server", "stop_server", "get_server_info",
            "create_session", "connect_event_stream"}

NextLocks ==
    \/ \E o \in {"start_server", "stop_server"} : Sup(Call("t1", o))
    \/ \E o \in LockOps : Sup(Call("t2", o))
    \/ SupSteps
    \/ SessSteps
    \/ ConnSteps

\* a step of the call task t is in
StepOf(t) ==
    \/ Sup(StartAcquire(t))
    \/ Sup(StartCachedAcquire(t))
    \/ Sup(StartCached(t))
    \/ \E o \in ResolveOutcomes : Sup(StartResolve(t, o))
    \/ \E s \in StdoutScripts : Sup(StartDiscover(t, s))
    \/ \E n \in FirstOkChoices : Sup(StartWait(t, n))
    \/ Sup(StartStoreAcquire(t))
    \/ \E b \in BOOLEAN : Sup(StartStore(t, b))
    \/ Sup(StopAcquire(t))
    \/ \E b \in BOOLEAN : Sup(StopKill(t, b))
    \/ \E b \in BOOLEAN : Sup(StopWait(t, b))
    \/ Sup(StopInfoAcquire(t))
    \/ Sup(StopInfo(t))
    \/ Sup(GetRead(t))
    \/ Sup(SessSnapshot(t))
    \/ Sup(SessRequest(t))
    \/ \E o \in RequestOutcomes : Sup(SessResponse(t, o))
    \/ ConnSnapshot(t) /\ ChatAdvance
    \/ ConnRequest(t) /\ ChatAdvance
    \/ \E o \in ConnectOutcomes :
          \E s \in ConnectStreams : ConnResponse(t, o, s) /\ ChatAdvance

SpecLocks ==
    /\ Init
    /\ [][NextLocks]_vars
    /\ \A t \in Tasks : SF_vars(StepOf(t))

\* ------------------------------------------------------------------ claims
Returned(o) == lastRet.op = o

\* C1: when start_server is called twice in a row, the first call spawning a
\* sidecar and returning its ServerInfo and that sidecar still being alive,
\* the second call returns the identical ServerInfo and spawns nothing, so
\* exactly one process is spawned by the two calls.
C1_StartTwiceSameInfoOneSpawn ==
    (Returned("start_server") /\ IsSome(lastRet.prevSec) /\ lastRet.prevAlive)
        => /\ lastRet.res = Ok(Unwrap(lastRet.prevSec).info)
           /\ lastRet.spawnedPid = None

C1_Witness ==
    /\ Returned("start_server")
    /\ IsSome(lastRet.prevSec)
    /\ lastRet.prevAlive
    /\ lastRet.res.ok

\* C2: start_server spawns only when no sidecar it spawned before is alive,
\* hence at most one supervisor-spawned sidecar is alive in every reachable
\* state.
C2_AtMostOneSidecarAlive == Cardinality(alive) <= 1

\* C3: when all 30 probes of a start_server call fail, the call fails with
\* the readiness-timeout error, the stored ServerInfo has status Error and
\* the spawned process is still tracked.
C3_TimeoutStoresErrorKeepsProcess ==
    (Returned("start_server") /\ lastRet.at = "start_poll"
                              /\ lastRet.attempts = MAX_ATTEMPTS)
        => /\ lastRet.res = Err(ErrTimeout)
           /\ IsSome(lastRet.postInfo)
           /\ Unwrap(lastRet.postInfo).status = StatusError
           /\ IsSome(lastRet.spawnedPid)
           /\ lastRet.postProc = lastRet.spawnedPid

\* C4: stop_server called while no process handle is tracked returns success
\* and leaves the shared state as it was: no handle, and the stored
\* ServerInfo equal in every field to the one before the call.
C4_StopUntrackedIsNoOp ==
    (Returned("stop_server") /\ ~lastRet.hadChild)
        => /\ lastRet.res = OkUnit
           /\ lastRet.postProc = None
           /\ lastRet.postInfo = lastRet.preInfo

C6_SessionOpsNeedInfo ==
    (lastRet.op \in SessionOps /\ lastRet.url = None)
        => /\ lastRet.res = Err(ErrNotRunning)
           /\ lastRet.reqs = 0

C6_Witness ==
    /\ lastRet.op \in SessionOps
    /\ lastRet.url = None
    /\ ~lastRet.res.ok

\* C7: a stored ServerInfo has a non-empty base_url exactly when its status
\* is Starting or Running.
C7_BaseUrlIffActive ==
    IsSome(server_info)
        => LET info == Unwrap(server_info)
           IN (info.base_url # <<>>)
                  <=> (info.status \in {StatusStarting, StatusRunning})


\* what the relay publishes when the whole stream arrives as one chunk
PublishedInOneChunk ==
    Flatten(Drain(from_utf8_lossy(stream), <<>>, failTopics).log, 1)

\* C8: whatever way the stream was split into chunks, once the relay has
\* read it to its end it has published exactly the sequence of publications
\* it makes when the whole stream arrives in one chunk.
C8_ChunkingIndependent ==
    relay = "finished" => published = PublishedInOneChunk

\* the payloads of the "data: " lines of a record
DataPayloads(record) ==
    LET data == SelectSeq(Lines(record), LAMBDA l : IsSome(StripDataPrefix(l)))
    IN  [k \in 1..Len(data) |-> Unwrap(StripDataPrefix(data[k]))]

SinglePayload(h) == Len(DataPayloads(h.record)) = 1
PayloadOf(h) == DataPayloads(h.record)[1]

Undecodable(h) ==
    /\ SinglePayload(h)
    /\ Trim(PayloadOf(h)) # <<>>
    /\ PayloadOf(h) # <<"{", "}">>
    /\ ~from_str(PayloadOf(h)).ok

\* C9: a handled record whose data payload is non-empty, is not "{}" and
\* does not decode as an event has, when the emit on the raw-event topic
\* succeeds, exactly one publication: the payload text on the raw-event
\* topic (so none on a decoded-event topic).
C9_UndecodableGoesRawOnce ==
    \A k \in 1..Len(handled) :
        (Undecodable(handled[k]) /\ <<"opencode-raw-event">> \notin failTopics)
            => handled[k].pubs =
                   <<[topic |-> <<"opencode-raw-event">>,
                      payload |-> [of |-> "str", session_id |-> None,
                                   text |-> PayloadOf(handled[k])]]>>

\* an undecodable record was reassembled from several chunks and handled,
\* and its raw publication was made
C9_Witness ==
    /\ relay = "finished"
    /\ failTopics = {}
    /\ \E k \in 1..Len(handled) :
          /\ Undecodable(handled[k])
          /\ Len(handled[k].pubs) = 1
          /\ handled[k].pubs[1].topic = <<"opencode-raw-event">>
    /\ published # <<>>

ScopedTypes == {"MessageUpdated", "MessagePartUpdated", "SessionIdle",
                "SessionError"}

TopicNameOf(type) ==
    CASE type = "MessageUpdated" -> "opencode-message-updated"
      [] type = "MessagePartUpdated" -> "opencode-message-part-updated"
      [] type = "SessionIdle" -> "opencode-session-idle"
      [] type = "SessionError" -> "opencode-session-error"

DecodesScoped(h) ==
    /\ SinglePayload(h)
    /\ Trim(PayloadOf(h)) # <<>>
    /\ from_str(PayloadOf(h)).ok
    /\ from_str(PayloadOf(h)).event.type \in ScopedTypes

\* C10: a handled record that decodes as MessageUpdated, MessagePartUpdated,
\* SessionIdle or SessionError has, when no emit fails, exactly two
\* publications if the event has a session identifier - the first on the
\* global topic, the second on that name, a colon and the identifier, both
\* with the same payload - and exactly one, on the global topic, if it is a
\* SessionError without identifier.
C10_ScopedEventsPublishedTwice ==
    \A k \in 1..Len(handled) :
        (DecodesScoped(handled[k]) /\ failTopics = {})
            => LET e == from_str(PayloadOf(handled[k])).event
                   name == TopicNameOf(e.type)
                   pubs == handled[k].pubs
               IN  IF IsSome(e.session_id)
                   THEN /\ Len(pubs) = 2
                        /\ pubs[1].topic = <<name>>
                        /\ pubs[2].topic = <<name, ":">> \o Unwrap(e.session_id)
                        /\ pubs[1].payload = pubs[2].payload
                        /\ pubs[1].payload.session_id = e.session_id
                   ELSE /\ e.type = "SessionError"
                        /\ Len(pubs) = 1
                        /\ pubs[1].topic = <<name>>

\* a stream with a SessionIdle for session abc was read to its end and both
\* of its publications were made
C10_Witness ==
    /\ relay = "finished"
    /\ failTopics = {}
    /\ \E k \in 1..Len(handled) :
          /\ DecodesScoped(handled[k])
          /\ Len(handled[k].pubs) = 2
          /\ handled[k].pubs[2].topic =
                 <<"opencode-session-idle", ":", "a", "b", "c">>

GlobalOnlyTypes == {"SessionUpdated", "SessionDeleted"}

GlobalOnlyNameOf(type) ==
    CASE type = "SessionUpdated" -> "opencode-session-updated"
      [] type = "SessionDeleted" -> "opencode-session-deleted"

DecodesGlobalOnly(h) ==
    /\ SinglePayload(h)
    /\ Trim(PayloadOf(h)) # <<>>
    /\ from_str(PayloadOf(h)).ok
    /\ from_str(PayloadOf(h)).event.type \in GlobalOnlyTypes

\* C11: a handled record that decodes as SessionUpdated or SessionDeleted
\* has, when no emit fails, exactly one publication, and its topic is the
\* global topic name alone (no colon and session identifier after it).
C11_SessionEventsGlobalOnly ==
    \A k \in 1..Len(handled) :
        (DecodesGlobalOnly(handled[k]) /\ failTopics = {})
            => LET e == from_str(PayloadOf(handled[k])).event
                   pubs == handled[k].pubs
               IN  /\ Len(pubs) = 1
                   /\ pubs[1].topic = <<GlobalOnlyNameOf(e.type)>>
                   /\ \A j \in 1..Len(pubs) : Len(pubs[j].topic) = 1

\* a stream with a SessionDeleted record was read to its end and the record's
\* publication was made
C11_Witness ==
    /\ relay = "finished"
    /\ failTopics = {}
    /\ \E k \in 1..Len(handled) :
          /\ DecodesGlobalOnly(handled[k])
          /\ handled[k].pubs # <<>>
          /\ handled[k].pubs[1].topic = <<"opencode-session-deleted">>

\* the number of stream bytes a decoded text stands for
ByteLen(text) ==
    Len(text) + Cardinality({i \in 1..Len(text) : text[i] = CharE9})

RECURSIVE HandledBytes(_)
HandledBytes(k) ==
    IF k = 0 THEN 0
    ELSE HandledBytes(k - 1) + ByteLen(handled[k].record) + 2

\* every byte delivered so far is in a handled record, in the separator
\* after one, or in the buffer, and the buffer holds no complete record
AllCompleteRecordsHandled ==
    /\ FindSeparator(buffer) = 0
    /\ HandledBytes(Len(handled)) + ByteLen(buffer) = rpos

\* C12: the relay leaves its loop only in a step that handles no record: at
\* the end of the stream or on a failed chunk read.  After every step all
\* complete records delivered so far have been handled, whatever the result
\* of handling the earlier ones (undecodable payload, failed emit).
C12_OnlyStreamEndStopsRelay ==
    /\ [](AllCompleteRecordsHandled
            /\ (relay = "finished" => rpos = Len(stream)))
    /\ [][relay' # relay
            => /\ relay = "reading"
               /\ relay' \in {"finished", "failed"}
               /\ UNCHANGED <<handled, published, buffer, rpos>>]_vars

\* the raw publication of an undecodable record failed, and the record after
\* it was handled and published all the same
C12_Witness ==
    /\ relay = "finished"
    /\ \E k \in 1..(Len(handled) - 1) :
          /\ Undecodable(handled[k])
          /\ ~handled[k].ok
          /\ handled[k + 1].pubs # <<>>

\* connect_event_stream of task t returns in this step
ConnectReturns(t) ==
    /\ op[t] = "connect_event_stream"
    /\ pc[t] # "idle"
    /\ pc'[t] = "idle"

\* C13: a connect_event_stream that returns an error launches no relay task
\* and leaves the relay alone; one that returns Ok has launched exactly one
\* relay task, which at the return has read nothing of its stream yet; and
\* relay tasks are launched by nothing else.
C13_ConnectLaunchesOneTaskOnSuccess ==
    [][/\ \A t \in Tasks :
            ConnectReturns(t) =>
                IF lastRet'.res.ok
                THEN /\ pc[t] = "conn_response"
                     /\ relays' = relays + 1
                     /\ relay = "none" =>
                            /\ relay' = "reading"
                            /\ rpos' = 0
                            /\ buffer' = <<>>
                            /\ handled' = <<>>
                            /\ published' = <<>>
                     /\ relay # "none" => UNCHANGED relayVars
                ELSE /\ relays' = relays
                     /\ UNCHANGED relayVars
       /\ relays' # relays => \E t \in Tasks : ConnectReturns(t)]_vars

\* connect_event_stream has just returned Ok: the one relay task it launched
\* is running and has not read a byte
C13_Witness ==
    /\ Returned("connect_event_stream")
    /\ lastRet.res.ok
    /\ relays = 1
    /\ relay = "reading"
    /\ rpos = 0
    /\ handled = <<>>

\* C14: a connect_event_stream that found no ServerInfo stored, or one with
\* status Stopped or Error, returns the not-running error and has sent no
\* request.
C14_ConnectNeedsActiveInfo ==
    (/\ Returned("connect_event_stream")
     /\ \/ lastRet.preInfo = None
        \/ Unwrap(lastRet.preInfo).status \in {StatusStopped, StatusError})
        => /\ lastRet.res = Err(ErrNotRunning)
           /\ lastRet.reqs = 0

\* C15: a start_server that returns a ServerInfo has published exactly one
\* server-started notification, carrying that ServerInfo, and the shared
\* state holds that ServerInfo with status Running; a start_server that
\* fails before the store (runtime lookup, spawn, readiness) has published
\* none.
C15_StartedNotificationOnSuccess ==
    Returned("start_server") =>
        /\ lastRet.res.ok =>
              /\ lastRet.notified = lastRet.res.val
              /\ lastRet.postInfo = lastRet.res.val
              /\ Unwrap(lastRet.res.val).status = StatusRunning
        /\ (~lastRet.res.ok /\ lastRet.at \in {"start_resolve", "start_poll"})
              => lastRet.notified = <<>>

\* a colon of the line is immediately followed by a digit
HasColonDigit(line) ==
    \E i \in 1..(Len(line) - 1) : line[i] = ":" /\ IsDigit(line[i + 1])

FirstLine == portScript[1].line

ServerListeningLine ==
    <<"S", "e", "r", "v", "e", "r", " ", "l", "i", "s", "t", "e", "n", "i", "n",
      "g", " ", "o", "n", " ", "1", "2", "7", ".", "0", ".", "0", ".", "1", ":",
      "4", "1", "2", "3", "4">>

\* C16: extraction on "Server listening on 127.0.0.1:41234" yields 41234; on
\* a line without a digit right after a colon it yields none; and the port
\* of the ServerInfo is never 0, being 3001 whenever discovery found none.
C16_PortExtractionAndFallback ==
    (IsSome(portOut) /\ portScript # <<>> /\ portScript[1].kind = "line")
        => LET out == Unwrap(portOut)
           IN  /\ FirstLine = ServerListeningLine =>
                      out.extracted = Some(41234)
               /\ ~HasColonDigit(FirstLine) => out.extracted = None
               /\ out.info.port # 0
               /\ (Len(portScript) = 1 /\ out.extracted \in {None, Some(0)})
                      => out.info.port = 3001

\* the positions of start_server after its liveness check
StartBody == {"start_cached_lock", "start_cached", "start_resolve",
              "start_discover", "start_poll", "start_store_lock", "start_store"}

\* C17: when a start_server call is made while another task is inside
\* start_server and that other call spawns a sidecar which passes its health
\* check and stays alive, the later call spawns nothing and returns the same
\* ServerInfo; and a task is past its liveness check only while it holds the
\* server_process lock, so the second caller checks liveness only after the
\* first has spawned, health-checked and stored the ServerInfo.
C17_ConcurrentStartsSerialised ==
    /\ \A t \in Tasks : pc[t] \in StartBody => procLock = t
    /\ (Returned("start_server") /\ lastRet.overlap
           /\ IsSome(lastRet.prevSec) /\ lastRet.prevAlive)
          => /\ lastRet.res = Ok(Unwrap(lastRet.prevSec).info)
             /\ lastRet.spawnedPid = None
             /\ lastRet.at = "start_cached"

C17_Witness ==
    /\ Returned("start_server")
    /\ lastRet.overlap
    /\ IsSome(lastRet.prevSec)
    /\ lastRet.prevAlive
    /\ lastRet.res = Ok(Unwrap(lastRet.prevSec).info)
    /\ spawned = 1

\* the port-discovery and readiness-polling window of start_server
StartWindow == {"start_discover", "start_poll"}

\* C18: while a task is in the port-discovery or readiness-polling window of
\* start_server, no other task is blocked by it: the lock a concurrent call
\* of stop_server, start_server, get_server_info or a session operation
\* waits for is not held by that task.
C18_StartWindowBlocksNobody ==
    \A t \in Tasks : \A u \in Tasks \ {t} :
        pc[t] \in StartWindow
            => /\ pc[u] \in {"start_lock", "stop_lock"} => procLock # t
               /\ pc[u] \in {"get_lock", "sess_lock"} => infoLock # t

\* the operations that may change the shared state
MutatingOps == {"start_server", "stop_server"}

\* C19: every step that changes the tracked process handle or the stored
\* ServerInfo is a step of a start_server or stop_server call: the session
\* operations, get_server_info, connect_event_stream and the relay task
\* leave both unchanged, whether they succeed or fail.
C19_OnlyStartStopMutate ==
    [][(server_process' # server_process \/ server_info' # server_info)
          => \E t \in Tasks : op[t] \in MutatingOps /\ pc'[t] # pc[t]]_vars

C19_Witness ==
    /\ Returned("connect_event_stream")
    /\ lastRet.res.ok
    /\ lastRet.postInfo = server_info
    /\ lastRet.postProc = server_process
    /\ IsSome(server_info)
    /\ IsSome(server_process)
    /\ relays >= 1

\* stop_server ran with a stored Running info whose sidecar is alive when
\* stop_server returns
StopLeftSidecarAlive ==
    /\ Returned("stop_server")
    /\ IsSome(lastRet.preInfo)
    /\ Unwrap(lastRet.preInfo).status = StatusRunning
    /\ IsSome(Unwrap(lastRet.preInfo).pid)
    /\ Unwrap(Unwrap(lastRet.preInfo).pid) \in alive

\* C20: once start_server has stored a Running info for a sidecar that has
\* not exited, whatever start_server calls follow, the process handle is
\* still tracked when stop_server runs, so that stop_server terminates the
\* sidecar: a sidecar outliving stop_server had its handle taken by it.
C20_StopFindsHandleAfterRestarts ==
    StopLeftSidecarAlive => lastRet.hadChild

\* the readiness wait that made `attempts` probes against behaviour firstOk
\* stopped at its first successful probe, within the 30 allowed
StoppedAtFirstSuccess(firstOk, attempts) ==
    /\ attempts \in 1..MAX_ATTEMPTS
    /\ ProbeOk(firstOk, attempts)
    /\ \A a \in 1..(attempts - 1) : ~ProbeOk(firstOk, a)

IsRunning(info) == IsSome(info) /\ Unwrap(info).status = StatusRunning

\* what a task inside start_server holds before and after its readiness wait
WaitGatesRunning ==
    \A t \in Tasks :
        /\ (pc[t] \in {"start_discover", "start_poll"})
              => ~IsRunning(loc[t].info)
        /\ (pc[t] \in {"start_store_lock", "start_store"})
              => (/\ IsRunning(loc[t].info)
                  /\ StoppedAtFirstSuccess(loc[t].firstOk, loc[t].attempts))

\* what a spawning start_server returns
SpawningStartOutcome ==
    /\ (Returned("start_server") /\ IsSome(lastRet.spawnedPid) /\ lastRet.res.ok)
          => (/\ IsRunning(lastRet.res.val)
              /\ StoppedAtFirstSuccess(lastRet.firstOk, lastRet.attempts))
    /\ (Returned("start_server") /\ lastRet.at = "start_poll")
          => (/\ lastRet.res = Err(ErrTimeout)
              /\ lastRet.attempts = MAX_ATTEMPTS
              /\ \A a \in 1..MAX_ATTEMPTS : ~ProbeOk(lastRet.firstOk, a))

\* C21: a spawning start_server holds, stores or returns a Running info only
\* after a probe of that call succeeded, the probes stopping at the first
\* success and never exceeding 30; a readiness wait that ends without a
\* success made exactly 30 failing probes and returns the timeout error.
C21_RunningOnlyAfterProbeSuccess ==
    /\ [](WaitGatesRunning /\ SpawningStartOutcome)
    /\ [][(server_info' # server_info /\ IsRunning(server_info'))
            => (\E t \in Tasks :
                   /\ pc[t] = "start_store"
                   /\ server_info' = loc[t].info
                   /\ StoppedAtFirstSuccess(loc[t].firstOk, loc[t].attempts))]_vars

C21_Witness ==
    /\ Returned("start_server")
    /\ IsSome(lastRet.spawnedPid)
    /\ lastRet.res.ok
    /\ lastRet.attempts = MAX_ATTEMPTS
    /\ IsRunning(server_info)

\* C22: from the spawn of a sidecar by start_server until its readiness
\* polling ends, the stored info (what get_server_info returns) is present,
\* has status Starting and carries the pid of the process just spawned.
C22_StartingVisibleWhilePolling ==
    \A t \in Tasks :
        pc[t] \in StartWindow
            => /\ IsSome(server_info)
               /\ Unwrap(server_info).status = StatusStarting
               /\ Unwrap(server_info).pid = loc[t].spawnedPid

DecodesMessageRemoved(h) ==
    /\ SinglePayload(h)
    /\ Trim(PayloadOf(h)) # <<>>
    /\ from_str(PayloadOf(h)).ok
    /\ from_str(PayloadOf(h)).event.type = "MessageRemoved"

\* C23: a handled record that decodes as MessageRemoved has, when no emit
\* fails, exactly one publication: the whole decoded event on the generic
\* topic "opencode-event", and none on a session-scoped topic although the
\* event carries a session identifier.
C23_MessageRemovedGenericOnce ==
    \A k \in 1..Len(handled) :
        (DecodesMessageRemoved(handled[k]) /\ failTopics = {})
            => LET e == from_str(PayloadOf(handled[k])).event
               IN  /\ IsSome(e.session_id)
                   /\ handled[k].pubs =
                          <<[topic |-> <<"opencode-event">>,
                             payload |-> [of |-> "OpenCodeEvent",
                                          session_id |-> e.session_id,
                                          text |-> <<>>]]>>

\* a stream with a MessageRemoved record was read to its end and the record's
\* publication was made
C23_Witness ==
    /\ relay = "finished"
    /\ failTopics = {}
    /\ \E k \in 1..Len(handled) :
          /\ DecodesMessageRemoved(handled[k])
          /\ Len(handled[k].pubs) = 1
    /\ \E j \in 1..Len(published) : published[j].topic = <<"opencode-event">>

\* every data payload of the record (if it has any) is blank or is "{}"
OnlySkippedPayloads(h) ==
    \A k \in 1..Len(DataPayloads(h.record)) :
        LET data == DataPayloads(h.record)[k]
        IN  \/ \A i \in 1..Len(data) : IsWhitespace(data[i])
            \/ data = <<"{", "}">>

\* C24: a handled record without a "data: " line, or whose data payloads are
\* empty after trimming or exactly "{}", has no publication at all, decoded
\* or raw, and its handling succeeds.
C24_HeartbeatsPublishNothing ==
    \A k \in 1..Len(handled) :
        OnlySkippedPayloads(handled[k])
            => handled[k].pubs = <<>> /\ handled[k].ok

\* a "{}" record was handled and, the stream read to its end, nothing was
\* published
C24_Witness ==
    /\ relay = "finished"
    /\ published = <<>>
    /\ \E k \in 1..Len(handled) :
          /\ SinglePayload(handled[k])
          /\ PayloadOf(handled[k]) = <<"{", "}">>
          /\ handled[k].pubs = <<>>

\* C25: execute_opencode_chat goes from get_server_info to create_session
\* without calling start_server only when the info it read has status
\* Running.
C25_ChatEnsuresRunning ==
    \A t \in Tasks :
        (chat[t] = "create" /\ lastRet.task = t /\ Returned("get_server_info"))
            => IsRunning(Unwrap(lastRet.res.val))

\* the relay tasks launched so far that have not left process_event_stream
RelaysConsuming ==
    relays - (IF relay \in {"finished", "failed"} THEN 1 ELSE 0)

\* C26: while the one sidecar spawned so far is running, however many
\* execute_opencode_chat and connect_event_stream calls were made against
\* it, at most one relay task is consuming its event stream.
C26_AtMostOneRelayTask ==
    (spawned = 1 /\ alive = {1} /\ IsRunning(server_info))
        => RelaysConsuming <= 1

\* the positions at which a call waits for the server_process lock and for
\* the server_info lock
ProcLockWaits == {"start_lock", "stop_lock"}
InfoLockWaits == {"start_cached_lock", "start_store_lock", "stop_info_lock",
                  "get_lock", "sess_lock", "conn_lock"}

\* C27: no task waits for the server_process lock while holding the
\* server_info lock, a task takes the server_process lock only while it
\* holds neither lock, so that whenever a task holds both the
\* server_process lock was taken first, and every call waiting for a lock
\* eventually acquires it: no task stays at a lock acquisition for ever (a
\* call waits at no more than two acquisitions in a row).
C27_NoDeadlock ==
    /\ [](\A t \in Tasks :
             /\ infoLock = t => pc[t] \notin ProcLockWaits
             /\ pc[t] \in InfoLockWaits => infoLock # t)
    /\ [][\A t \in Tasks :
             (procLock' = t /\ procLock # t) => (infoLock # t /\ infoLock' # t)]_vars
    /\ \A t \in Tasks : []<>(pc[t] \notin ProcLockWaits \cup InfoLockWaits)

\* a task waits for the server_process lock held by a start_server call that
\* itself waits for the server_info lock held by a third operation's owner
C27_Witness ==
    /\ pc["t2"] \in ProcLockWaits
    /\ procLock = "t1"
    /\ pc["t1"] \in InfoLockWaits

====
